---- MODULE Spec2Model ----
(***************************************************************************)
(* Internal-link analysis dashboards of funnel-fusion: anchor-gap.py,      *)
(* dynamic_funnel_dashboard.py and gap_analysis_app.py.                    *)
(*                                                                         *)
(* Each app is a Streamlit script: every interaction (an upload, a form    *)
(* submit, a widget change) runs the whole script once, top to bottom.     *)
(* The state that survives a run is the uploaded files, the DuckDB tables, *)
(* st.session_state and the widgets' values; everything else is            *)
(* recomputed by the run and is what the user sees until the next run.     *)
(***************************************************************************)
EXTENDS Integers, Sequences, FiniteSets, TLC

(***************************************************************************)
(* Bounds of the model.                                                    *)
(***************************************************************************)
MaxPages == 2
MaxLinks == 2
MaxUrlLen == 3

(***************************************************************************)
(* Values.  A URL is the string "https://a.com" followed by a path; only   *)
(* the path is kept, as a sequence of characters.  The fixed prefix is     *)
(* lower-case and does not end in '/', so LOWER(RTRIM(., '/')) of the URL  *)
(* is the prefix followed by LOWER(RTRIM(., '/')) of the path.             *)
(***************************************************************************)
NULL == "<null>"
NullPath == <<NULL>>
NullCount == 0 - 1
\* A selection that is not there: a set that is no set of column values.
Absent == {"<absent>"}

Funnels == {"MOF", "TOF"}
Geos == {"US"}
Positions == {"Content", "Footer"}
AnchorTexts == {"click"}

PagePaths == { <<"/", "x", "/">>, <<"/", "X">>, <<"/", "y">> }
SourcePaths == { <<"/", "x">>, <<"/", "z">> }
DestinationPaths == { <<"/", "y">>, <<"/", "X", "/", "/">> }

PageColumns == {"Address", "Funnel", "Geo"}
AnchorColumns == {"Source", "Destination", "Anchor", "Link Position"}

(***************************************************************************)
(* LOWER(RTRIM(s, '/')) of DuckDB, as the three scripts apply it to        *)
(* Address, Source and Destination.                                        *)
(***************************************************************************)
LowerChar(c) ==
    CASE c = "X" -> "x"
      [] c = "Y" -> "y"
      [] c = "Z" -> "z"
      [] OTHER -> c

LOWER(s) == [i \in 1..Len(s) |-> LowerChar(s[i])]

RECURSIVE RTRIM(_)
RTRIM(s) ==
    IF s = <<>> THEN s
    ELSE IF s[Len(s)] = "/" THEN RTRIM(SubSeq(s, 1, Len(s) - 1))
    ELSE s

\* A normalization that forgets the trailing slashes.
Normalize_lower_only(s) == LOWER(s)

\* A normalization that removes one trailing slash only.
Normalize_strip_one(s) ==
    LOWER(IF s # <<>> /\ s[Len(s)] = "/" THEN SubSeq(s, 1, Len(s) - 1) ELSE s)

Normalize(s) == LOWER(RTRIM(s))

(***************************************************************************)
(* Generic relational helpers on sequences of records.                     *)
(***************************************************************************)
RECURSIVE Flatten(_)
Flatten(ss) ==
    IF ss = <<>> THEN <<>> ELSE Head(ss) \o Flatten(Tail(ss))

Range(s) == {s[i] : i \in 1..Len(s)}

SeqsUpTo(S, n) == UNION {[1..k -> S] : k \in 0..n}

\* Sum of f over the finite set S.
RECURSIVE SumOver(_, _)
SumOver(S, f) ==
    IF S = {} THEN 0
    ELSE LET x == CHOOSE y \in S : TRUE
         IN f[x] + SumOver(S \ {x}, f)

\* The values of s, each once, in the order of first occurrence.
RECURSIVE Distinct(_)
Distinct(s) ==
    IF s = <<>> THEN <<>>
    ELSE LET rest == Distinct(SubSeq(s, 1, Len(s) - 1))
             last == s[Len(s)]
         IN IF last \in Range(rest) THEN rest ELSE Append(rest, last)

(***************************************************************************)
(* Uploaded files and DuckDB tables.  A file is readable or not; a         *)
(* readable file has a set of columns and rows.  CREATE TABLE ... AS       *)
(* SELECT * copies columns and rows as they are.  The Topic column is      *)
(* carried through unchanged by every query and is left out.               *)
(***************************************************************************)
NoFile == [readable |-> FALSE, cols |-> {}, rows |-> <<>>, empty |-> TRUE]
Unreadable == [readable |-> FALSE, cols |-> {}, rows |-> <<>>, empty |-> FALSE]
NoTable == [cols |-> {}, rows |-> <<>>, exists |-> FALSE]

File(cols, rows) ==
    [readable |-> TRUE, cols |-> cols, rows |-> rows, empty |-> FALSE]

Table(f) == [cols |-> f.cols, rows |-> f.rows, exists |-> TRUE]

PageRows ==
    [Address : PagePaths, Funnel : Funnels \cup {NULL}, Geo : Geos \cup {NULL}]

AnchorRows ==
    [Source : SourcePaths, Destination : DestinationPaths,
     Anchor : AnchorTexts \cup {NULL}, LinkPosition : Positions \cup {NULL}]

(***************************************************************************)
(* SELECT DISTINCT c FROM t WHERE c IS NOT NULL, sorted.  The lists are    *)
(* used as multiselect options and as IN lists only, so a set models them. *)
(***************************************************************************)
funnel_list(pages) == {r.Funnel : r \in Range(pages.rows)} \ {NULL}
geo_list(pages) == {r.Geo : r \in Range(pages.rows)} \ {NULL}
pos_list(anchors) == {r.LinkPosition : r \in Range(anchors.rows)} \ {NULL}

(***************************************************************************)
(* to_sql_str_list quotes each item; no value of the model holds a quote,  *)
(* so the doubling of quotes changes nothing.  c IN (list) holds when c is *)
(* not NULL and equals the string one of the literals denotes.  An empty   *)
(* list is the text "()", which DuckDB's parser rejects.                   *)
(***************************************************************************)
to_sql_str_list(items) == {<<"'", i, "'">> : i \in items}
\* A membership test that lets a null value through.
InList_or_null(v, items) ==
    v = NULL \/ <<"'", v, "'">> \in to_sql_str_list(items)

InList(v, items) == v # NULL /\ <<"'", v, "'">> \in to_sql_str_list(items)
SqlSyntaxError(items) == to_sql_str_list(items) = {}

(***************************************************************************)
(* pages_sql and anchors_sql.                                              *)
(***************************************************************************)
pages_sql(pages, sf, sg) ==
    LET sel == SelectSeq(pages.rows,
                         LAMBDA r : InList(r.Funnel, sf) /\ InList(r.Geo, sg))
    IN [i \in 1..Len(sel) |->
           [Address |-> sel[i].Address, Funnel |-> sel[i].Funnel,
            Geo |-> sel[i].Geo, URL |-> Normalize(sel[i].Address)]]

anchors_sql(anchors, sp) ==
    LET sel == SelectSeq(anchors.rows, LAMBDA r : InList(r.LinkPosition, sp))
    IN [i \in 1..Len(sel) |->
           [FromURL |-> Normalize(sel[i].Source),
            ToURL |-> Normalize(sel[i].Destination),
            AnchorText |-> sel[i].Anchor,
            LinkPosition |-> sel[i].LinkPosition]]

(***************************************************************************)
(* pandas: DataFrame.merge(how="left"), one output row per match of a left *)
(* row, in the left frame's order, and one row of nulls for a left row     *)
(* that matches nothing.                                                   *)
(***************************************************************************)
\* An inner merge: a left row that matches nothing is dropped.
merge_inner(left, right, left_on, right_on, nulls) ==
    Flatten([i \in 1..Len(left) |->
        LET m == SelectSeq(right, LAMBDA r : r[right_on] = left[i][left_on])
        IN [j \in 1..Len(m) |-> left[i] @@ m[j]]])

merge(left, right, left_on, right_on, nulls) ==
    Flatten([i \in 1..Len(left) |->
        LET m == SelectSeq(right, LAMBDA r : r[right_on] = left[i][left_on])
        IN IF m = <<>> THEN << left[i] @@ nulls >>
           ELSE [j \in 1..Len(m) |-> left[i] @@ m[j]]])

drop(df, column) ==
    [i \in 1..Len(df) |-> [f \in (DOMAIN df[i]) \ {column} |-> df[i][f]]]

(***************************************************************************)
(* Link gap analysis: inbound counts per ToURL, left-joined onto the       *)
(* pages.  Series.count() counts the non-null values of "Anchor Text".     *)
(* groupby sorts its keys; the order of the right frame of a left merge    *)
(* does not show in the result, so first-occurrence order is used.         *)
(***************************************************************************)
\* Inbound counts without the grouping: one row per link.
inbound_ungrouped(anchors_df) ==
    [i \in 1..Len(anchors_df) |->
        [ToURL |-> anchors_df[i].ToURL,
         InboundLinks |-> IF anchors_df[i].AnchorText # NULL THEN 1 ELSE 0]]

inbound(anchors_df) ==
    LET keys == Distinct([i \in 1..Len(anchors_df) |-> anchors_df[i].ToURL])
    IN [k \in 1..Len(keys) |->
           [ToURL |-> keys[k],
            InboundLinks |->
                Cardinality({i \in 1..Len(anchors_df) :
                                /\ anchors_df[i].ToURL = keys[k]
                                /\ anchors_df[i].AnchorText # NULL})]]

fillna(df) ==
    [i \in 1..Len(df) |->
        IF df[i].InboundLinks = NullCount
        THEN [df[i] EXCEPT !.InboundLinks = 0] ELSE df[i]]

gap_table(pages_df, anchors_df) ==
    fillna(merge(pages_df, inbound(anchors_df), "URL", "ToURL",
                 [ToURL |-> NullPath, InboundLinks |-> NullCount]))

Max(S) == CHOOSE m \in S : \A n \in S : n <= m

max_links_of(gap) ==
    IF gap = <<>> THEN 0 ELSE Max({gap[i].InboundLinks : i \in 1..Len(gap)})

\* A threshold that keeps the rows strictly below it.
filtered_gap_strict(gap, threshold) ==
    LET kept == SelectSeq(gap, LAMBDA r : r.InboundLinks < threshold)
    IN [i \in 1..Len(kept) |->
           [URL |-> kept[i].URL, Funnel |-> kept[i].Funnel,
            Geo |-> kept[i].Geo, InboundLinks |-> kept[i].InboundLinks]]

filtered_gap_of(gap, threshold) ==
    LET kept == SelectSeq(gap, LAMBDA r : r.InboundLinks <= threshold)
    IN [i \in 1..Len(kept) |->
           [URL |-> kept[i].URL, Funnel |-> kept[i].Funnel,
            Geo |-> kept[i].Geo, InboundLinks |-> kept[i].InboundLinks]]

\* anchors_df[anchors_df["ToURL"] == url][["FromURL","Anchor Text","Link Position"]]
details_of(anchors_df, url) ==
    LET hit == SelectSeq(anchors_df, LAMBDA r : r.ToURL = url)
    IN [i \in 1..Len(hit) |->
           [FromURL |-> hit[i].FromURL, AnchorText |-> hit[i].AnchorText,
            LinkPosition |-> hit[i].LinkPosition]]

(***************************************************************************)
(* Funnel flow: two left merges of the links with pages_df[["URL",         *)
(* "Funnel"]], then groupby(["From_Funnel","To_Funnel"]).size().  groupby  *)
(* leaves out the rows with a null key; the scripts drop null stages       *)
(* again afterwards.                                                       *)
(***************************************************************************)
\* The page stages with one row per URL (drop_duplicates("URL")).
url_funnel_dedup(pages_df, name) ==
    LET first == SelectSeq([i \in 1..Len(pages_df) |-> i],
                           LAMBDA i : \A j \in 1..(i - 1) :
                                         pages_df[j].URL # pages_df[i].URL)
    IN [k \in 1..Len(first) |->
           (name :> pages_df[first[k]].Funnel)
               @@ [URL |-> pages_df[first[k]].URL]]

url_funnel(pages_df, name) ==
    [i \in 1..Len(pages_df) |->
        (name :> pages_df[i].Funnel) @@ [URL |-> pages_df[i].URL]]

merged_of(pages_df, anchors_df) ==
    LET m1 == drop(merge(anchors_df, url_funnel(pages_df, "From_Funnel"),
                         "FromURL", "URL",
                         [URL |-> NullPath, From_Funnel |-> NULL]), "URL")
    IN drop(merge(m1, url_funnel(pages_df, "To_Funnel"), "ToURL", "URL",
                  [URL |-> NullPath, To_Funnel |-> NULL]), "URL")

groupby_size(merged) ==
    LET keys == {<<merged[i].From_Funnel, merged[i].To_Funnel>> :
                    i \in {j \in 1..Len(merged) :
                              /\ merged[j].From_Funnel # NULL
                              /\ merged[j].To_Funnel # NULL}}
    IN {[From_Funnel |-> k[1], To_Funnel |-> k[2],
         Count |-> Cardinality({i \in 1..Len(merged) :
                                   /\ merged[i].From_Funnel = k[1]
                                   /\ merged[i].To_Funnel = k[2]})] : k \in keys}

dropna(sankey) ==
    {r \in sankey : r.From_Funnel # NULL /\ r.To_Funnel # NULL}

sankey_of(pages_df, anchors_df) ==
    dropna(groupby_size(merged_of(pages_df, anchors_df)))

\* pages_df["URL"].unique(), in order of first occurrence.
unique_urls(pages_df) == Distinct([i \in 1..Len(pages_df) |-> pages_df[i].URL])

(***************************************************************************)
(* State.                                                                  *)
(*   app            the script that is deployed                            *)
(*   pages_file, anchors_file   the two file_uploader widgets              *)
(*   gsc_json_file, ahrefs_token  the two credential widgets (given or not)*)
(*   pages, anchors the DuckDB tables of the session's connection          *)
(*   session        st.session_state's three selection keys                *)
(*   form           the values of the three multiselects; a multiselect    *)
(*                  keeps its value from run to run while its options are  *)
(*                  the same and starts from its default otherwise         *)
(* and what the last run computed and displayed:                           *)
(*   status, sf, sg, sp, pages_df, anchors_df, gap, threshold,             *)
(*   filtered_gap, choice, details, sankey_df, page, intern and the three  *)
(*   sections of the page explorer.                                        *)
(***************************************************************************)
VARIABLES app, pages_file, anchors_file, gsc_json_file, ahrefs_token,
          pages, anchors, session, form,
          status, sf, sg, sp, pages_df, anchors_df,
          gap, threshold, filtered_gap, choice, details,
          sankey_df, page, intern,
          gsc_section, internal_section, ahrefs_section

inputs == <<app, pages_file, anchors_file, gsc_json_file, ahrefs_token>>
store == <<pages, anchors>>
outputs == <<status, sf, sg, sp, pages_df, anchors_df,
             gap, threshold, filtered_gap, choice, details,
             sankey_df, page, intern,
             gsc_section, internal_section, ahrefs_section>>
vars == <<inputs, store, session, form, outputs>>

Apps == {"anchor-gap", "dynamic_funnel_dashboard", "gap_analysis_app"}
FormApps == {"anchor-gap", "dynamic_funnel_dashboard"}

NoSession == [sel_funnels |-> Absent, sel_geos |-> Absent, sel_pos |-> Absent]
NotRendered == "<not rendered>"
Sel(f, g, p) == [sel_funnels |-> f, sel_geos |-> g, sel_pos |-> p]
\* The multiselects when the run did not reach them.
NoForm == NoSession

\* What a run leaves on the page when it stops before anything is drawn.
Blank ==
    [sf |-> Absent, sg |-> Absent, sp |-> Absent,
     form |-> NoForm,
     pages_df |-> <<>>, anchors_df |-> <<>>,
     gap |-> <<>>, threshold |-> NullCount, filtered_gap |-> <<>>,
     choice |-> NullPath, details |-> <<>>,
     sankey_df |-> {}, page |-> NullPath, intern |-> <<>>,
     gsc_section |-> NotRendered, internal_section |-> NotRendered,
     ahrefs_section |-> NotRendered]

\* What the two external services may answer.
Outcomes == {"success", "no_rows", "failure"}
(***************************************************************************)
(* The tabs.  Each returns the fields of Blank it fills in.  inp holds the  *)
(* slider's and the two selectboxes' values and the options they had: a    *)
(* widget keeps its value while its options are the same and starts from   *)
(* its default (the largest threshold, the first URL) otherwise.  inp also *)
(* holds the two services' answers.                                        *)
(***************************************************************************)
tab_gap(a, pdf, adf, inp) ==
    IF a \in FormApps /\ pdf = <<>>
    THEN [gap |-> <<>>]
    ELSE
      LET g == gap_table(pdf, adf)
          max_links == max_links_of(g)
          thr == IF inp.thr # NullCount /\ inp.thr_max = max_links
                 THEN inp.thr ELSE max_links
          fg == filtered_gap_of(g, thr)
          options == [i \in 1..Len(fg) |-> fg[i].URL]
          ch == IF fg = <<>> THEN NullPath
                ELSE IF inp.choice # NullPath /\ inp.choice_options = options
                THEN inp.choice ELSE options[1]
      IN [gap |-> g, threshold |-> thr, filtered_gap |-> fg, choice |-> ch,
          details |-> IF fg = <<>> THEN <<>> ELSE details_of(adf, ch)]

tab_flow(a, pdf, adf) ==
    IF a \notin FormApps \/ pdf = <<>> \/ adf = <<>>
    THEN [sankey_df |-> {}]
    ELSE [sankey_df |-> sankey_of(pdf, adf)]

gsc_pull(gj, outcome) ==
    IF ~gj THEN "info"
    ELSE CASE outcome = "success" -> "metrics"
           [] outcome = "no_rows" -> "warning"
           [] OTHER -> "error"

ahrefs_pull(tok, outcome) ==
    IF ~tok THEN "info"
    ELSE CASE outcome = "success" -> "table"
           [] outcome = "no_rows" -> "none found"
           [] OTHER -> "error"

internal_anchors(adf, pg) == SelectSeq(adf, LAMBDA r : r.ToURL = pg)

\* A page explorer in which a failed search-analytics call ends the run.
tab_explorer_gsc_fatal(a, pdf, adf, gj, tok, inp) ==
    IF a # "anchor-gap" \/ pdf = <<>>
    THEN [page |-> NullPath]
    ELSE
      LET options == unique_urls(pdf)
          pg == IF inp.page # NullPath /\ inp.page_options = options
                THEN inp.page ELSE options[1]
          it == internal_anchors(adf, pg)
      IN IF gsc_pull(gj, inp.gsc) = "error"
         THEN [page |-> pg, gsc_section |-> "error"]
         ELSE [page |-> pg,
               gsc_section |-> gsc_pull(gj, inp.gsc),
               intern |-> it,
               internal_section |-> IF it = <<>> THEN "none" ELSE "table",
               ahrefs_section |-> ahrefs_pull(tok, inp.ahrefs)]

tab_explorer(a, pdf, adf, gj, tok, inp) ==
    IF a # "anchor-gap" \/ pdf = <<>>
    THEN [page |-> NullPath]
    ELSE
      LET options == unique_urls(pdf)
          pg == IF inp.page # NullPath /\ inp.page_options = options
                THEN inp.page ELSE options[1]
          it == internal_anchors(adf, pg)
      IN [page |-> pg,
          gsc_section |-> gsc_pull(gj, inp.gsc),
          intern |-> it,
          internal_section |-> IF it = <<>> THEN "none" ELSE "table",
          ahrefs_section |-> ahrefs_pull(tok, inp.ahrefs)]

tabs(a, pdf, adf, gj, tok, inp) ==
    tab_gap(a, pdf, adf, inp) @@ tab_flow(a, pdf, adf)
        @@ tab_explorer(a, pdf, adf, gj, tok, inp)

(***************************************************************************)
(* get_filtered_data of anchor-gap.py and the "apply filters" block of     *)
(* dynamic_funnel_dashboard.py: an empty funnel or geo selection gives two *)
(* empty frames; a query that names a column the table lacks fails.  The   *)
(* queries of gap_analysis_app.py are built and run without these guards.  *)
(***************************************************************************)
\* A filter that reads an empty selection as "no restriction".
get_filtered_data_unfiltered(a, tp, ta, f, g, p) ==
    [error |-> "none",
     pages_df |-> pages_sql(tp, IF f = {} THEN funnel_list(tp) ELSE f,
                            IF g = {} THEN geo_list(tp) ELSE g),
     anchors_df |-> anchors_sql(ta, p)]

\* A filter whose link query runs also when the funnel or geo selection is
\* empty.
get_filtered_data_links_always(a, tp, ta, f, g, p) ==
    IF a \in FormApps /\ (f = {} \/ g = {})
    THEN [error |-> "none", pages_df |-> <<>>,
          anchors_df |-> IF AnchorColumns \subseteq ta.cols
                         THEN anchors_sql(ta, p) ELSE <<>>]
    ELSE get_filtered_data_unfiltered(a, tp, ta, f, g, p)

get_filtered_data(a, tp, ta, f, g, p) ==
    IF a \in FormApps /\ (f = {} \/ g = {})
    THEN [error |-> "none", pages_df |-> <<>>, anchors_df |-> <<>>]
    ELSE IF SqlSyntaxError(f) \/ SqlSyntaxError(g)
    THEN [error |-> "sql_error", pages_df |-> <<>>, anchors_df |-> <<>>]
    ELSE IF ~({"Address", "Funnel", "Geo"} \subseteq tp.cols)
    THEN [error |-> "column_error", pages_df |-> <<>>, anchors_df |-> <<>>]
    ELSE IF a \in FormApps /\ p = {}
    THEN [error |-> "none", pages_df |-> pages_sql(tp, f, g),
          anchors_df |-> <<>>]
    ELSE IF SqlSyntaxError(p)
    THEN [error |-> "sql_error", pages_df |-> <<>>, anchors_df |-> <<>>]
    ELSE IF ~(AnchorColumns \subseteq ta.cols)
    THEN [error |-> "column_error", pages_df |-> <<>>, anchors_df |-> <<>>]
    ELSE [error |-> "none", pages_df |-> pages_sql(tp, f, g),
          anchors_df |-> anchors_sql(ta, p)]

(***************************************************************************)
(* load_tables (and load_duckdb of gap_analysis_app.py): drop both tables  *)
(* and create them again from the two data frames, whatever their columns. *)
(***************************************************************************)
load_tables(pages_df_raw, anchors_df_raw) ==
    [pages |-> Table(pages_df_raw), anchors |-> Table(anchors_df_raw)]

(***************************************************************************)
(* The defaults handed to the three multiselects.  The form apps pass      *)
(* st.session_state.get(key, list); gap_analysis_app.py passes the lists   *)
(* for funnel and geo and ["Content"] for the link position.               *)
(***************************************************************************)
Get(value, default) == IF value = Absent THEN default ELSE value

widget_defaults(a, ses, fl, gl, pl) ==
    IF a \in FormApps
    THEN Sel(Get(ses.sel_funnels, fl), Get(ses.sel_geos, gl),
             Get(ses.sel_pos, pl))
    ELSE Sel(fl, gl, {"Content"})

\* st.multiselect raises when a default is not one of the options.
DefaultsInOptions(d, fl, gl, pl) ==
    /\ d.sel_funnels \subseteq fl
    /\ d.sel_geos \subseteq gl
    /\ d.sel_pos \subseteq pl

\* A form that stashes its selections on every run.
submit_every_run(a, apply, ses, value) == IF a \in FormApps THEN value ELSE ses

\* "if apply_btn:" the three selections go to st.session_state together.
submit(a, apply, ses, value) == IF a \in FormApps /\ apply THEN value ELSE ses

\* "initialize defaults if missing"
initialize_defaults(ses, fl, gl, pl) ==
    Sel(Get(ses.sel_funnels, fl), Get(ses.sel_geos, gl), Get(ses.sel_pos, pl))

(***************************************************************************)
(* One run of the script.  a: the app; pf, af: the uploaded files; tp, ta: *)
(* the tables before the run; ses: st.session_state; frm: the values of   *)
(* the multiselects; apply: the form was submitted; gj, tok: the           *)
(* credentials; inp: the tab widgets and the services' answers.            *)
(* The result holds every variable the run sets.                           *)
(***************************************************************************)
Script(a, pf, af, tp, ta, ses, frm, apply, gj, tok, inp) ==
    LET keep == [pages |-> tp, anchors |-> ta, session |-> ses]
    IN
    IF pf.empty \/ af.empty
    THEN [status |-> "no_files"] @@ keep @@ Blank
    ELSE IF ~pf.readable \/ ~af.readable
    THEN [status |-> "read_error"] @@ keep @@ Blank
    ELSE
    LET db == load_tables(pf, af)
        loaded == [pages |-> db.pages, anchors |-> db.anchors]
    IN
    IF ~({"Funnel", "Geo"} \subseteq db.pages.cols)
          \/ "Link Position" \notin db.anchors.cols
    THEN [status |-> "column_error", session |-> ses]
             @@ loaded @@ Blank
    ELSE
    LET fl == funnel_list(db.pages)
        gl == geo_list(db.pages)
        pl == pos_list(db.anchors)
        dflt == widget_defaults(a, ses, fl, gl, pl)
        same == <<fl, gl, pl>> = <<funnel_list(tp), geo_list(tp), pos_list(ta)>>
    IN
    IF ~DefaultsInOptions(dflt, fl, gl, pl)
    THEN [status |-> "widget_error", session |-> ses]
             @@ loaded @@ Blank
    ELSE
    LET value == IF frm # NoForm /\ same THEN frm ELSE dflt
        ses1 == submit(a, apply, ses, value)
        ses2 == IF a \in FormApps THEN initialize_defaults(ses1, fl, gl, pl)
                ELSE ses
        used == IF a \in FormApps THEN ses2 ELSE value
        data == get_filtered_data(a, db.pages, db.anchors, used.sel_funnels,
                                  used.sel_geos, used.sel_pos)
        sofar == [session |-> ses2, form |-> value,
                  sf |-> used.sel_funnels, sg |-> used.sel_geos,
                  sp |-> used.sel_pos] @@ loaded
    IN
    IF data.error # "none"
    THEN [status |-> data.error] @@ sofar @@ Blank
    ELSE [status |-> "done", pages_df |-> data.pages_df,
          anchors_df |-> data.anchors_df]
             @@ tabs(a, data.pages_df, data.anchors_df, gj, tok, inp)
             @@ sofar @@ Blank

(***************************************************************************)
(* The files a user may upload.                                            *)
(***************************************************************************)
PagesTables(Rows) ==
    {File(PageColumns, rows) : rows \in SeqsUpTo(Rows, MaxPages)}
AnchorsTables(Rows) ==
    {File(AnchorColumns, rows) : rows \in SeqsUpTo(Rows, MaxLinks)}

ExamplePages ==
    << [Address |-> <<"/", "x", "/">>, Funnel |-> "TOF", Geo |-> "US"],
       [Address |-> <<"/", "y">>, Funnel |-> "MOF", Geo |-> "US"] >>
ExampleLinks ==
    << [Source |-> <<"/", "x">>, Destination |-> <<"/", "y">>,
        Anchor |-> "click", LinkPosition |-> "Content"] >>

\* Files that cannot be read, or that lack one required column.
BadPagesFiles ==
    {Unreadable} \cup {File(PageColumns \ {c}, ExamplePages) : c \in PageColumns}
BadAnchorsFiles ==
    {Unreadable}
        \cup {File(AnchorColumns \ {c}, ExampleLinks) : c \in AnchorColumns}

\* The values of the tab widgets as the last run left them.
CurrentWidgets ==
    [thr |-> threshold, thr_max |-> max_links_of(gap),
     choice |-> choice,
     choice_options |-> [i \in 1..Len(filtered_gap) |-> filtered_gap[i].URL],
     page |-> page, page_options |-> unique_urls(pages_df)]

\* The services are asked only by anchor-gap.py and only with a credential.
Answers(given) == IF app = "anchor-gap" /\ given THEN Outcomes ELSE {"failure"}

(***************************************************************************)
(* A run of the script with the widgets as given.                          *)
(***************************************************************************)
Run(pf, af, frm, apply, gj, tok, w) ==
    \E g \in Answers(gj), h \in Answers(tok) :
    \E r \in {Script(app, pf, af, pages, anchors, session, frm, apply, gj, tok,
                     [gsc |-> g, ahrefs |-> h] @@ w)} :
       /\ app' = app
       /\ pages_file' = pf
       /\ anchors_file' = af
       /\ gsc_json_file' = gj
       /\ ahrefs_token' = tok
       /\ pages' = r.pages
       /\ anchors' = r.anchors
       /\ session' = r.session
       /\ form' = r.form
       /\ status' = r.status
       /\ sf' = r.sf
       /\ sg' = r.sg
       /\ sp' = r.sp
       /\ pages_df' = r.pages_df
       /\ anchors_df' = r.anchors_df
       /\ gap' = r.gap
       /\ threshold' = r.threshold
       /\ filtered_gap' = r.filtered_gap
       /\ choice' = r.choice
       /\ details' = r.details
       /\ sankey_df' = r.sankey_df
       /\ page' = r.page
       /\ intern' = r.intern
       /\ gsc_section' = r.gsc_section
       /\ internal_section' = r.internal_section
       /\ ahrefs_section' = r.ahrefs_section

Init ==
    /\ app \in Apps
    /\ pages_file = NoFile
    /\ anchors_file = NoFile
    /\ gsc_json_file = FALSE
    /\ ahrefs_token = FALSE
    /\ pages = NoTable
    /\ anchors = NoTable
    /\ session = NoSession
    /\ form = Blank.form
    /\ status = "no_files"
    /\ sf = Blank.sf
    /\ sg = Blank.sg
    /\ sp = Blank.sp
    /\ pages_df = Blank.pages_df
    /\ anchors_df = Blank.anchors_df
    /\ gap = Blank.gap
    /\ threshold = Blank.threshold
    /\ filtered_gap = Blank.filtered_gap
    /\ choice = Blank.choice
    /\ details = Blank.details
    /\ sankey_df = Blank.sankey_df
    /\ page = Blank.page
    /\ intern = Blank.intern
    /\ gsc_section = Blank.gsc_section
    /\ internal_section = Blank.internal_section
    /\ ahrefs_section = Blank.ahrefs_section

\* The user puts a file into the classification uploader.
UploadPages(Files) ==
    \E f \in Files :
        Run(f, anchors_file, form, FALSE, gsc_json_file, ahrefs_token,
            CurrentWidgets)

\* The user puts a file into the inlinks uploader.
UploadAnchors(Files) ==
    \E f \in Files :
        Run(pages_file, f, form, FALSE, gsc_json_file, ahrefs_token,
            CurrentWidgets)

\* The user changes the multiselects of the filter form without submitting.
FormEdit ==
    /\ app \in FormApps
    /\ form # NoForm
    /\ \E f \in SUBSET funnel_list(pages), g \in SUBSET geo_list(pages),
          p \in SUBSET pos_list(anchors) :
           /\ form' = Sel(f, g, p)
           /\ form' # form
    /\ UNCHANGED <<inputs, store, session, outputs>>

\* The user presses "Apply Filters".
Apply ==
    /\ app \in FormApps
    /\ form # NoForm
    /\ Run(pages_file, anchors_file, form, TRUE, gsc_json_file, ahrefs_token,
           CurrentWidgets)

\* gap_analysis_app.py has no form: a changed multiselect runs the script.
Select ==
    /\ app \notin FormApps
    /\ form # NoForm
    /\ \E f \in SUBSET funnel_list(pages), g \in SUBSET geo_list(pages),
          p \in SUBSET pos_list(anchors) :
           /\ Sel(f, g, p) # form
           /\ Run(pages_file, anchors_file, Sel(f, g, p), FALSE,
                  gsc_json_file, ahrefs_token, CurrentWidgets)

\* The user moves the "Maximum Inbound Links" slider.
MoveSlider ==
    /\ threshold # NullCount
    /\ \E t \in 0..max_links_of(gap) :
        /\ t # threshold
        /\ Run(pages_file, anchors_file, form, FALSE, gsc_json_file,
               ahrefs_token, [CurrentWidgets EXCEPT !.thr = t])

\* The user picks a URL of the gap table to see its inbound links.
SelectUrl ==
    /\ choice # NullPath
    /\ \E u \in {filtered_gap[i].URL : i \in 1..Len(filtered_gap)} :
        /\ u # choice
        /\ Run(pages_file, anchors_file, form, FALSE, gsc_json_file,
               ahrefs_token, [CurrentWidgets EXCEPT !.choice = u])

\* The user picks a page in the page explorer.
SelectPage ==
    /\ page # NullPath
    /\ \E u \in Range(unique_urls(pages_df)) :
        /\ u # page
        /\ Run(pages_file, anchors_file, form, FALSE, gsc_json_file,
               ahrefs_token, [CurrentWidgets EXCEPT !.page = u])

\* The user gives or removes a credential (anchor-gap.py only).
Credentials ==
    /\ app = "anchor-gap"
    /\ \E gj \in BOOLEAN, tok \in BOOLEAN :
        /\ <<gj, tok>> # <<gsc_json_file, ahrefs_token>>
        /\ Run(pages_file, anchors_file, form, FALSE, gj, tok, CurrentWidgets)

\* A run started by anything else: the services are asked again.
Rerun ==
    Run(pages_file, anchors_file, form, FALSE, gsc_json_file, ahrefs_token,
        CurrentWidgets)

(***************************************************************************)
(* Spec: one session of one app, from the opening of the page.  The good   *)
(* files hold any of the rows of the example tables, in their order; the   *)
(* bad files cannot be read or lack a column.                              *)
(***************************************************************************)
RECURSIVE SubSeqs(_)
SubSeqs(s) ==
    IF s = <<>> THEN {<<>>}
    ELSE LET rest == SubSeqs(Tail(s))
         IN rest \cup {<<Head(s)>> \o t : t \in rest}

SessionLinks ==
    Append(ExampleLinks,
           [Source |-> <<"/", "z">>, Destination |-> <<"/", "X", "/", "/">>,
            Anchor |-> NULL, LinkPosition |-> "Footer"])

SessionPagesFiles ==
    {File(PageColumns, rows) : rows \in SubSeqs(ExamplePages)}
        \cup BadPagesFiles
SessionAnchorsFiles ==
    {File(AnchorColumns, rows) : rows \in SubSeqs(SessionLinks)}
        \cup BadAnchorsFiles

Next ==
    \/ UploadPages(SessionPagesFiles)
    \/ UploadAnchors(SessionAnchorsFiles)
    \/ FormEdit
    \/ Apply
    \/ Select

Spec == Init /\ [][Next]_vars

(***************************************************************************)
(* SpecData: the first load of any two tables of up to MaxPages pages and  *)
(* MaxLinks links, and then the widgets of the tabs.  Every address,       *)
(* every source and destination, a funnel stage or none, an anchor text or *)
(* none, a geo or none; one link position, which is the default of every   *)
(* app.                                                                    *)
(***************************************************************************)
DataPageRows == PageRows
DataAnchorRows == {r \in AnchorRows : r.LinkPosition = "Content"}

FirstPages == pages_file = NoFile /\ UploadPages(PagesTables(DataPageRows))
FirstAnchors ==
    anchors_file = NoFile /\ UploadAnchors(AnchorsTables(DataAnchorRows))

NextData ==
    \/ FirstPages
    \/ FirstAnchors
    \/ MoveSlider
    \/ SelectUrl
    \/ SelectPage

SpecData == Init /\ [][NextData]_vars

(***************************************************************************)
(* SpecExplorer: the page explorer of anchor-gap.py with and without the   *)
(* two credentials, under every answer of the two services.                *)
(***************************************************************************)
ExplorerPages == pages_file = NoFile /\ UploadPages(SessionPagesFiles)
ExplorerAnchors == anchors_file = NoFile /\ UploadAnchors(SessionAnchorsFiles)

NextExplorer ==
    \/ ExplorerPages
    \/ ExplorerAnchors
    \/ SelectPage
    \/ Credentials
    \/ Rerun

SpecExplorer == Init /\ [][NextExplorer]_vars

(***************************************************************************)
(* SpecNormalize: the first load of one page and one link whose Address,   *)
(* Source and Destination are any string of up to MaxUrlLen characters,    *)
(* the empty string and the strings of slashes included.                   *)
(***************************************************************************)
UrlChars == {"/", "x", "X"}
Urls == UNION {[1..n -> UrlChars] : n \in 0..MaxUrlLen}

NormalizePages ==
    /\ pages_file = NoFile
    /\ UploadPages({File(PageColumns,
                         << [Address |-> s, Funnel |-> "TOF", Geo |-> "US"] >>) :
                       s \in Urls})
NormalizeAnchors ==
    /\ anchors_file = NoFile
    /\ UploadAnchors({File(AnchorColumns,
                           << [Source |-> s, Destination |-> s,
                               Anchor |-> "click",
                               LinkPosition |-> "Content"] >>) :
                         s \in Urls})

NextNormalize ==
    \/ NormalizePages
    \/ NormalizeAnchors

SpecNormalize == Init /\ [][NextNormalize]_vars

(***************************************************************************)
(* SpecNulls: the first load of up to MaxPages pages with or without a     *)
(* funnel stage and a geo, and of the example's link, and then the filter  *)
(* widgets.                                                                *)
(***************************************************************************)
NullsPageRows ==
    {[Address |-> a, Funnel |-> f, Geo |-> g] :
        a \in {<<"/", "x", "/">>, <<"/", "y">>},
        f \in {"TOF", NULL}, g \in {"US", NULL}}

NullsPages == pages_file = NoFile /\ UploadPages(PagesTables(NullsPageRows))
NullsAnchors ==
    /\ anchors_file = NoFile
    /\ UploadAnchors({File(AnchorColumns, ExampleLinks)})

NextNulls ==
    \/ NullsPages
    \/ NullsAnchors
    \/ FormEdit
    \/ Apply
    \/ Select

SpecNulls == Init /\ [][NextNulls]_vars

(***************************************************************************)
(* Properties.                                                             *)
(***************************************************************************)
AllOf(tp, ta) == Sel(funnel_list(tp), geo_list(tp), pos_list(ta))

\* Both uploaders hold a file that can be read and has every required column.
Loadable(pf, af) ==
    /\ pf.readable /\ PageColumns \subseteq pf.cols
    /\ af.readable /\ AnchorColumns \subseteq af.cols

\* C1: in anchor-gap.py and dynamic_funnel_dashboard.py, whenever the applied
\* funnel selection or the applied geo selection is empty, the filtered page
\* set is empty and so is every view that depends on it: no gap row, no
\* funnel transition, no URL to drill into and no page for the page explorer.
C1_FailClosed ==
    (app \in FormApps /\ (session.sel_funnels = {} \/ session.sel_geos = {}))
        => /\ pages_df = <<>>
           /\ gap = <<>>
           /\ filtered_gap = <<>>
           /\ choice = NullPath
           /\ details = <<>>
           /\ sankey_df = {}
           /\ page = NullPath
           /\ intern = <<>>

\* The funnel selection was emptied with Apply on a dataset whose pages all
\* pass the geo selection and would pass an unrestricted funnel filter.
C1_Witness ==
    /\ app \in FormApps
    /\ status = "done"
    /\ session.sel_funnels = {}
    /\ session.sel_geos = geo_list(pages)
    /\ Len(pages.rows) = 2
    /\ funnel_list(pages) = Funnels
    /\ anchors.rows # <<>>

\* C2: in anchor-gap.py and dynamic_funnel_dashboard.py the selections in
\* st.session_state, once set, change only in a step that submits the form,
\* and that step sets all three to the submitted values; a form edit changes
\* nothing but the form; and every run filters by the selections of
\* st.session_state, whatever the form holds.
C2_Step ==
    app \in FormApps =>
        /\ (session # NoSession /\ session' # session) => Apply
        /\ Apply => session' = form
        /\ FormEdit => UNCHANGED <<session, store, outputs>>
        /\ status' = "done" =>
               /\ Sel(sf', sg', sp') = session'
               /\ pages_df' = pages_sql(pages', session'.sel_funnels,
                                        session'.sel_geos)

C2_OnlyApplyChangesSelections == [][C2_Step]_vars

\* Selections were applied and the form was edited afterwards: the form and
\* the applied selections differ in all three multiselects.
C2_Witness ==
    /\ app \in FormApps
    /\ status = "done"
    /\ session.sel_funnels = {"TOF"}
    /\ session.sel_pos = {}
    /\ form # NoForm
    /\ form.sel_funnels = {"MOF"}
    /\ form.sel_geos = {}
    /\ form.sel_pos = {"Footer"}
    /\ pages_df # <<>>

\* C3: after an upload replaces the dataset in a session that already holds
\* selections, the selections in effect are the full sets of distinct
\* non-null values of the new dataset.
C3_Step ==
    ( /\ app \in FormApps
      /\ session # NoSession
      /\ pages.exists
      /\ <<pages_file', anchors_file'>> # <<pages_file, anchors_file>>
      /\ Loadable(pages_file', anchors_file')
      /\ <<pages', anchors'>> # <<pages, anchors>> )
        => session' = AllOf(pages', anchors')

C3_ResetOnUpload == [][C3_Step]_vars

\* C4: an upload that cannot be read or lacks a required column leaves the
\* two tables and the selections as they were.
C4_Step ==
    ( /\ <<pages_file', anchors_file'>> # <<pages_file, anchors_file>>
      /\ ~pages_file'.empty /\ ~anchors_file'.empty
      /\ ~Loadable(pages_file', anchors_file') )
        => UNCHANGED <<pages, anchors, session>>

C4_RejectedBeforeStore == [][C4_Step]_vars

\* The number of rows of df whose column holds value.
CountWhere(df, column, value) ==
    Cardinality({i \in 1..Len(df) : df[i][column] = value})

\* A run drew the gap table.
GapDrawn == status = "done" /\ (app \in FormApps => pages_df # <<>>)

\* C5: for every filtered page row, InboundLinks is the number of filtered
\* link rows whose ToURL is the page's URL, whatever their anchor text.
C5_InboundCountsEveryLink ==
    GapDrawn =>
        /\ Len(gap) = Len(pages_df)
        /\ \A i \in 1..Len(gap) :
               gap[i].InboundLinks = CountWhere(anchors_df, "ToURL", gap[i].URL)

\* The transitions drawn by the funnel flow tab, and the sum of their counts.
SumOfCounts == SumOver(sankey_df, [r \in sankey_df |-> r.Count])
Resolved(url) == CountWhere(pages_df, "URL", url)
ResolvedLinks ==
    {j \in 1..Len(anchors_df) :
        Resolved(anchors_df[j].FromURL) > 0 /\ Resolved(anchors_df[j].ToURL) > 0}

\* C6: the counts of the transitions drawn add up to the number of filtered
\* links whose source and destination are both filtered pages, also when two
\* page rows have the same URL.
C6_CountConservation ==
    (app \in FormApps /\ status = "done")
        => SumOfCounts = Cardinality(ResolvedLinks)

\* C7: the gap table holds the rows of the filtered page set, each once and
\* in their order, each with InboundLinks >= 0, and 0 when no filtered link
\* points to the page.
C7_GapComplete ==
    GapDrawn =>
        /\ Len(gap) = Len(pages_df)
        /\ \A i \in 1..Len(gap) :
               /\ [f \in DOMAIN pages_df[i] |-> gap[i][f]] = pages_df[i]
               /\ gap[i].InboundLinks >= 0
               /\ CountWhere(anchors_df, "ToURL", gap[i].URL) = 0
                      => gap[i].InboundLinks = 0

\* Two page rows with the same URL, two links to it, and a page no link
\* points to.
C7_Witness ==
    /\ GapDrawn
    /\ Len(gap) = 2
    /\ gap[1].URL = gap[2].URL
    /\ gap[1].InboundLinks = 2
    /\ gap[2].InboundLinks = 2

\* C8: when a dataset is first loaded, each of the three selections the run
\* filters by is the set of all distinct non-null values of its column, in
\* every app.
C8_Step ==
    (form = NoForm /\ session = NoSession /\ status' = "done")
        => Sel(sf', sg', sp') = AllOf(pages', anchors')

C8_DefaultsAreAll == [][C8_Step]_vars

\* C9: in the page explorer of anchor-gap.py, whatever the two services
\* answer, the internal links of the selected page are displayed and are the
\* filtered links whose ToURL is the page; each service's section shows the
\* hint for a missing credential exactly when its own credential is missing,
\* and otherwise its own result or error.
C9_InternalLinksAlways ==
    (app = "anchor-gap" /\ status = "done" /\ pages_df # <<>>)
        => /\ page \in {pages_df[i].URL : i \in 1..Len(pages_df)}
           /\ intern = SelectSeq(anchors_df, LAMBDA r : r.ToURL = page)
           /\ internal_section = IF intern = <<>> THEN "none" ELSE "table"
           /\ gsc_section \in {"info", "metrics", "warning", "error"}
           /\ (gsc_section = "info") = ~gsc_json_file
           /\ ahrefs_section \in {"info", "table", "none found", "error"}
           /\ (ahrefs_section = "info") = ~ahrefs_token

\* Both services failed and the page has an internal link to show.
C9_Witness ==
    /\ app = "anchor-gap"
    /\ status = "done"
    /\ gsc_section = "error"
    /\ ahrefs_section = "error"
    /\ internal_section = "table"
    /\ Len(intern) = 1

\* C10: the example of two pages and one link, with every filter at all its
\* values: y has one inbound link and x none, the only transition is
\* (TOF, MOF, 1), and the drill-down for y is the one link from x.
ExampleLoaded ==
    /\ status = "done"
    /\ pages = Table(File(PageColumns, ExamplePages))
    /\ anchors = Table(File(AnchorColumns, ExampleLinks))
    /\ Sel(sf, sg, sp) = AllOf(pages, anchors)

C10_Example ==
    ExampleLoaded =>
        /\ [i \in 1..Len(gap) |-> <<gap[i].URL, gap[i].InboundLinks>>]
               = << <<(<<"/", "x">>), 0>>, <<(<<"/", "y">>), 1>> >>
        /\ app \in FormApps =>
               sankey_df = {[From_Funnel |-> "TOF", To_Funnel |-> "MOF",
                             Count |-> 1]}
        /\ choice = <<"/", "y">> =>
               /\ Len(details) = 1
               /\ details[1].FromURL = <<"/", "x">>
        /\ details_of(anchors_df, <<"/", "y">>)
               = << [FromURL |-> <<"/", "x">>, AnchorText |-> "click",
                     LinkPosition |-> "Content"] >>

\* The example is loaded in anchor-gap.py and y is picked for the drill-down.
C10_Witness ==
    /\ ExampleLoaded
    /\ app = "anchor-gap"
    /\ choice = <<"/", "y">>
    /\ Len(details) = 1

\* C11: in gap_analysis_app.py, a run whose funnel, geo or link-position
\* selection is empty does not fail: it ends with an empty page set and gap
\* table (funnel or geo empty) or an empty link set (position empty).
C11_EmptySelectionNoError ==
    (/\ app = "gap_analysis_app"
     /\ sf # Absent
     /\ status # "column_error"
     /\ (sf = {} \/ sg = {} \/ sp = {}))
        => /\ status = "done"
           /\ (sf = {} \/ sg = {}) => (pages_df = <<>> /\ gap = <<>>)
           /\ sp = {} => anchors_df = <<>>

\* The rows of the anchors table whose Link Position is in the applied
\* position selection, and whether anchors_df is those rows, normalized.
LinksAtPosition == SelectSeq(anchors.rows, LAMBDA r : r.LinkPosition \in sp)
LinksAreThoseAtPosition ==
    /\ Len(anchors_df) = Len(LinksAtPosition)
    /\ \A i \in 1..Len(anchors_df) :
           /\ anchors_df[i].LinkPosition = LinksAtPosition[i].LinkPosition
           /\ anchors_df[i].AnchorText = LinksAtPosition[i].Anchor
           /\ anchors_df[i].FromURL = LOWER(RTRIM(LinksAtPosition[i].Source))
           /\ anchors_df[i].ToURL
                  = LOWER(RTRIM(LinksAtPosition[i].Destination))

\* C12 as claimed: the filtered links are the link rows whose Link Position
\* is in the selection, whatever the funnel and geo selections are, also when
\* one of them is empty.
C12_LinksByPositionOnly ==
    (app \in FormApps /\ status = "done") => LinksAreThoseAtPosition

\* C12 as it holds: when the funnel and the geo selection are both non-empty
\* the filtered links are the link rows whose Link Position is in the
\* selection (none when it is empty); when the funnel or the geo selection is
\* empty there is no filtered link, whatever the position selection.
C12_LinksByPositionUnlessClosed ==
    (app \in FormApps /\ status = "done")
        => IF sf = {} \/ sg = {}
           THEN anchors_df = <<>>
           ELSE LinksAreThoseAtPosition

\* The funnel selection is empty and a link is at a selected position.
C12_Witness ==
    /\ app \in FormApps
    /\ status = "done"
    /\ sf = {}
    /\ sg # {}
    /\ LinksAtPosition # <<>>
    /\ anchors_df = <<>>

\* The funnel flow tab drew its table, and the full join it counted over.
FlowDrawn ==
    /\ app \in FormApps
    /\ status = "done"
    /\ pages_df # <<>>
    /\ anchors_df # <<>>
Merged == merged_of(pages_df, anchors_df)
AtLeastOne(n) == IF n = 0 THEN 1 ELSE n
WithStages(from, to) ==
    {k \in 1..Len(Merged) :
        Merged[k].From_Funnel = from /\ Merged[k].To_Funnel = to}
OfLink(j) ==
    {k \in 1..Len(Merged) :
        [f \in DOMAIN anchors_df[j] |-> Merged[k][f]] = anchors_df[j]}

\* C13: every filtered link is kept by the two left joins, with a null stage
\* on a side that matches no filtered page; no transition drawn has a null
\* stage; and the Count of each transition drawn is the number of rows of the
\* full join with its two stages, every pair of non-null stages of the join
\* being drawn.
C13_NullStagesDropped ==
    FlowDrawn =>
        /\ Len(Merged)
               = SumOver(1..Len(anchors_df),
                     [j \in 1..Len(anchors_df) |->
                         AtLeastOne(Resolved(anchors_df[j].FromURL))
                             * AtLeastOne(Resolved(anchors_df[j].ToURL))])
        /\ \A j \in 1..Len(anchors_df) :
               /\ Resolved(anchors_df[j].FromURL) = 0
                      => /\ OfLink(j) # {}
                         /\ \A k \in OfLink(j) : Merged[k].From_Funnel = NULL
               /\ Resolved(anchors_df[j].ToURL) = 0
                      => /\ OfLink(j) # {}
                         /\ \A k \in OfLink(j) : Merged[k].To_Funnel = NULL
        /\ \A r \in sankey_df :
               /\ r.From_Funnel # NULL
               /\ r.To_Funnel # NULL
               /\ r.Count = Cardinality(WithStages(r.From_Funnel, r.To_Funnel))
        /\ \A k \in 1..Len(Merged) :
               (Merged[k].From_Funnel # NULL /\ Merged[k].To_Funnel # NULL)
                   => \E r \in sankey_df :
                          /\ r.From_Funnel = Merged[k].From_Funnel
                          /\ r.To_Funnel = Merged[k].To_Funnel

\* One link joins two filtered pages and another starts at no filtered page.
C13_Witness ==
    /\ FlowDrawn
    /\ Len(anchors_df) = 2
    /\ Resolved(anchors_df[1].FromURL) = 0
    /\ Resolved(anchors_df[1].ToURL) = 1
    /\ Resolved(anchors_df[2].FromURL) = 1
    /\ Resolved(anchors_df[2].ToURL) = 1
    /\ Len(Merged) = 2
    /\ Cardinality(sankey_df) = 1

\* C14: the URL a query computes from an Address, a Source or a Destination
\* is a fixed point of the normalization, for every string, the empty one
\* and those made of slashes included.
C14_NormalizeIdempotent ==
    status = "done" =>
        /\ \A i \in 1..Len(pages_df) :
               Normalize(pages_df[i].URL) = pages_df[i].URL
        /\ \A j \in 1..Len(anchors_df) :
               /\ Normalize(anchors_df[j].FromURL) = anchors_df[j].FromURL
               /\ Normalize(anchors_df[j].ToURL) = anchors_df[j].ToURL

\* An address in upper case with two trailing slashes, and a link between
\* two strings of slashes.
C14_Witness ==
    /\ status = "done"
    /\ Len(pages_df) = 1
    /\ pages_df[1].Address = <<"X", "/", "/">>
    /\ pages_df[1].URL = <<"x">>
    /\ Len(anchors_df) = 1
    /\ anchors.rows[1].Destination = <<"/", "/">>
    /\ anchors_df[1].ToURL = <<>>

\* The gap rows with at most k inbound links, the n-th of them, and the
\* largest InboundLinks of the gap table (0 for an empty table).
KeptAt(k) == {i \in 1..Len(gap) : gap[i].InboundLinks <= k}
Nth(S, n) == CHOOSE i \in S : Cardinality({j \in S : j < i}) = n - 1
MaxInbound ==
    IF gap = <<>> THEN 0
    ELSE CHOOSE m \in {gap[i].InboundLinks : i \in 1..Len(gap)} :
             \A i \in 1..Len(gap) : gap[i].InboundLinks <= m

\* C15: the table shown under the slider holds exactly the gap rows with
\* InboundLinks <= threshold, in the gap table's order; the rows kept at k1
\* are among those kept at any k2 >= k1; and at the largest InboundLinks,
\* where the slider starts, every gap row is kept.
C15_ThresholdMonotone ==
    (status = "done" /\ threshold # NullCount) =>
        /\ threshold \in 0..MaxInbound
        /\ Len(filtered_gap) = Cardinality(KeptAt(threshold))
        /\ \A n \in 1..Len(filtered_gap) :
               filtered_gap[n]
                   = [f \in DOMAIN filtered_gap[n] |->
                         gap[Nth(KeptAt(threshold), n)][f]]
        /\ threshold = MaxInbound => Len(filtered_gap) = Len(gap)
        /\ Len(filtered_gap_of(gap, MaxInbound)) = Len(gap)
        /\ \A k1, k2 \in 0..MaxInbound :
               k1 <= k2 =>
                   /\ Len(filtered_gap_of(gap, k1))
                          <= Len(filtered_gap_of(gap, k2))
                   /\ Range(filtered_gap_of(gap, k1))
                          \subseteq Range(filtered_gap_of(gap, k2))

\* The slider was moved below its maximum and hides the first gap row.
C15_Witness ==
    /\ status = "done"
    /\ Len(gap) = 2
    /\ gap[1].InboundLinks = 2
    /\ gap[2].InboundLinks = 0
    /\ threshold = 1
    /\ Len(filtered_gap) = 1
    /\ filtered_gap[1].URL = gap[2].URL

\* The rows of the pages table that have a funnel stage and a geo.
Classified ==
    {i \in 1..Len(pages.rows) :
        pages.rows[i].Funnel # NULL /\ pages.rows[i].Geo # NULL}
FilteredStages == {pages_df[i].Funnel : i \in 1..Len(pages_df)}
FilteredUrls == {pages_df[i].URL : i \in 1..Len(pages_df)}

\* C16: whatever the selections, no filtered page has a null Funnel or Geo,
\* so none is in the gap table, the stages of the transitions and the pages
\* offered for detail come from pages that have both; and with the funnel and
\* geo selections at all observed values, every page that has both is in the
\* filtered page set.
C16_NullPagesNeverFiltered ==
    status = "done" =>
        /\ \A i \in 1..Len(pages_df) :
               pages_df[i].Funnel # NULL /\ pages_df[i].Geo # NULL
        /\ Len(pages_df) <= Cardinality(Classified)
        /\ \A i \in 1..Len(gap) :
               gap[i].Funnel # NULL /\ gap[i].Geo # NULL
        /\ \A r \in sankey_df :
               r.From_Funnel \in FilteredStages /\ r.To_Funnel \in FilteredStages
        /\ page # NullPath => page \in FilteredUrls
        /\ choice # NullPath => choice \in FilteredUrls
        /\ (sf = funnel_list(pages) /\ sg = geo_list(pages))
               => Len(pages_df) = Cardinality(Classified)

\* A page without a funnel stage and a page with both, after Apply emptied
\* the position selection.
C16_Witness ==
    /\ app \in FormApps
    /\ status = "done"
    /\ Len(pages.rows) = 2
    /\ pages.rows[1].Funnel = NULL
    /\ pages.rows[1].Geo = "US"
    /\ Classified = {2}
    /\ sf = {"TOF"}
    /\ sp = {}
    /\ Len(pages_df) = 1
    /\ Len(gap) = 1

====
